---- MODULE Spec2Model ----
(***************************************************************************)
(* Model of the two ETL jobs of echony-data-storage:                       *)
(*   .github/scripts/update_data.py   (full-history job)                   *)
(*   .github/scripts/collect_data.py  (latest-only job)                    *)
(*                                                                         *)
(* Time is counted in whole hours since 2024-01-01T00:00:00.  A DataFrame  *)
(* is a record [tz, rows]: tz is the dtype of its record_date column       *)
(* ("naive", "UTC" or "Asia/Shanghai"), rows the sequence of its rows, the *)
(* record_date of a row being the instant (for a naive column: the wall    *)
(* clock reading).  Metric values are integers; an average is kept as the  *)
(* exact fraction [num, den], floating point rounding is not modelled.     *)
(***************************************************************************)
EXTENDS Integers, Sequences, FiniteSets, TLC

VARIABLES
    table,          \* rows of material_data in the database, in storage order
    job,            \* "update" (update_data.py), "collect" (collect_data.py), "fn"
    pc,             \* position of the running job in its main()
    conn,           \* "none", "open", "closed": the database connection
    df,             \* the DataFrame held by the job
    now,            \* the value the last clock read returned
    dirs,           \* directories that exist
    files,          \* path -> content of the artifact files
    files0,         \* the content of the artifact files when the run started
    console,        \* messages printed
    status,         \* "running", "ok" (exit 0), "raised" (exception left main)
    failed,         \* the step that raised, or "none"
    exc,            \* the exception that ended the run, or "none"
    trace,          \* the steps executed so far, in order
    latest_data, metrics_data, summary_data, hour_24_data, day_30_data,
    call,           \* function specification: the function applied last
    ret,            \* function specification: what it returned or raised
    norm_calls      \* function specification: calls of the normalizer so far

vars == << table, job, pc, conn, df, now, dirs, files, files0, console, status,
           failed, exc, trace, latest_data, metrics_data, summary_data,
           hour_24_data, day_30_data, call, ret, norm_calls >>

-----------------------------------------------------------------------------
(* Bounds of the model *)

\* Rows of the table, and calls of the normalizer in a row
MaxRows == 2
MaxNormCalls == 2

\* record_date values (2024-01-01 00:00 and 12:00, 2024-01-02 00:00) and the
\* values of the two metric columns
Times == {0, 12, 24}
ValueRange == {10, 20, 30}
WeightRange == {1, 2}

\* Clock readings: with rows ahead of the clock (12), with rows inside and
\* outside the 24 hours (40), on the edge of the 30 days (732) and past them (760)
NowRange == {12, 40, 732, 760}

\* Window durations in hours: none, 24 hours, 30 days
WindowRange == {0, 24, 720}

-----------------------------------------------------------------------------
(* Program constants *)

ChinaOffset == 8
Hours24 == 24
Days30 == 30

Columns == {"ID", "record_date", "value", "weight"}

None == [none |-> TRUE]
Return(v) == [exc |-> "none", val |-> v]
Raise(e) == [exc |-> e]

-----------------------------------------------------------------------------
(* Tables *)

RowValues == [record_date : Times, value : ValueRange, weight : WeightRange]

WithID(s) ==
    [i \in 1..Len(s) |->
        [ID |-> i, record_date |-> s[i].record_date,
         value |-> s[i].value, weight |-> s[i].weight]]

AllTables == UNION {{WithID(s) : s \in [1..n -> RowValues]} : n \in 0..MaxRows}

RECURSIVE SeqSum(_)
SeqSum(s) == IF s = <<>> THEN 0 ELSE Head(s) + SeqSum(Tail(s))

SetMax(S) == CHOOSE x \in S : \A y \in S : y <= x
SetMin(S) == CHOOSE x \in S : \A y \in S : x <= y

Column(rows, c) == [i \in 1..Len(rows) |-> rows[i][c]]
Range(s) == {s[i] : i \in 1..Len(s)}

-----------------------------------------------------------------------------
(* Timestamps *)

UtcOffset(tz) == IF tz = "Asia/Shanghai" THEN ChinaOffset ELSE 0

Wall(tz, t) == t + UtcOffset(tz)

Two(n) == IF n < 10 THEN "0" \o ToString(n) ELSE ToString(n)

\* The wall clock reading w as date, separator, time (January and February 2024)
FormatWall(w, sep) ==
    LET d == w \div 24
        h == w % 24
        month == IF d < 31 THEN 1 ELSE 2
        day == IF d < 31 THEN d + 1 ELSE d - 30
    IN  "2024-" \o Two(month) \o "-" \o Two(day) \o sep \o Two(h) \o ":00:00"

\* Faulty variant: the UTC reading is formatted, the zone of the column ignored
strftime_utc(tz, t) == FormatWall(t, " ")

\* Timestamp.strftime('%Y-%m-%d %H:%M:%S'): the wall clock reading, the offset dropped
strftime(tz, t) == FormatWall(Wall(tz, t), " ")

\* str(Timestamp): the wall clock reading, followed by the offset when aware
str_timestamp(tz, t) ==
    IF tz = "naive" THEN FormatWall(t, " ")
    ELSE IF tz = "UTC" THEN FormatWall(t, " ") \o "+00:00"
    ELSE FormatWall(Wall(tz, t), " ") \o "+08:00"

\* datetime.isoformat() of a naive datetime at a whole second
isoformat(t) == FormatWall(t, "T")

-----------------------------------------------------------------------------
(* update_data.py: the normalizer and the transformers *)

\* Series.dt.tz_localize(UTC): only a naive column can be localized
tz_localize(frame) ==
    IF frame.tz = "naive" THEN Return([frame EXCEPT !.tz = "UTC"])
    ELSE Raise("TypeError")

\* Series.dt.tz_convert(tz): the instants stay, the zone changes
tz_convert(frame, tz) ==
    IF frame.tz = "naive" THEN Raise("TypeError")
    ELSE Return([frame EXCEPT !.tz = tz])

\* Faulty variant: an aware column is converted as it is, without an error
convert_to_china_timezone_lenient(frame) ==
    IF frame.tz = "naive" THEN tz_convert(tz_localize(frame).val, "Asia/Shanghai")
    ELSE tz_convert(frame, "Asia/Shanghai")

convert_to_china_timezone(frame) ==
    LET localized == tz_localize(frame)
    IN  IF localized.exc # "none" THEN localized
        ELSE tz_convert(localized.val, "Asia/Shanghai")

\* Faulty variant: an empty DataFrame gives an empty record instead of an IndexError
process_latest_data_default(frame) ==
    IF frame.rows = <<>> THEN Return([record_date |-> ""])
    ELSE Return([frame.rows[1] EXCEPT
                    !.record_date = strftime(frame.tz, frame.rows[1].record_date)])

process_latest_data(frame) ==
    IF frame.rows = <<>> THEN Raise("IndexError")
    ELSE Return([frame.rows[1] EXCEPT
                    !.record_date = strftime(frame.tz, frame.rows[1].record_date)])

MetricColumns == Columns \ {"ID", "record_date"}

\* Faulty variant: the timestamps are emitted newest last, the metric columns in row order
process_historical_metrics_reversed(frame) ==
    [k \in MetricColumns \cup {"timestamps"} |->
        IF k = "timestamps"
        THEN [i \in 1..Len(frame.rows) |->
                strftime(frame.tz, frame.rows[Len(frame.rows) + 1 - i].record_date)]
        ELSE Column(frame.rows, k)]

process_historical_metrics(frame) ==
    [k \in MetricColumns \cup {"timestamps"} |->
        IF k = "timestamps"
        THEN [i \in 1..Len(frame.rows) |-> strftime(frame.tz, frame.rows[i].record_date)]
        ELSE Column(frame.rows, k)]

column_summary(rows, c) ==
    [max |-> SetMax(Range(Column(rows, c))),
     min |-> SetMin(Range(Column(rows, c))),
     avg |-> [num |-> SeqSum(Column(rows, c)), den |-> Len(rows)],
     current |-> rows[1][c]]

process_summary(frame) ==
    IF frame.rows = <<>> THEN Raise("ValueError")
    ELSE Return(
        [last_update |-> strftime(frame.tz, SetMax(Range(Column(frame.rows, "record_date")))),
         total_records |-> Len(frame.rows),
         metrics_summary |-> [c \in MetricColumns |-> column_summary(frame.rows, c)]])

\* Faulty variant: the row on the edge of the window is dropped
window_rows_strict(frame, t, hours) ==
    [frame EXCEPT !.rows = SelectSeq(frame.rows, LAMBDA r : r.record_date > t - hours)]

\* Faulty variant: the comparison is turned around
window_rows_older(frame, t, hours) ==
    [frame EXCEPT !.rows = SelectSeq(frame.rows, LAMBDA r : r.record_date <= t - hours)]

\* df[df['record_date'] >= now - timedelta(hours)]: now is an aware Timestamp
window_rows(frame, t, hours) ==
    [frame EXCEPT !.rows = SelectSeq(frame.rows, LAMBDA r : r.record_date >= t - hours)]

\* The windowed-cache builder for one window: the filter, then the reshaper.
\* Comparing a naive column with the aware now raises
windowed_cache(frame, t, hours) ==
    IF frame.tz = "naive" THEN Raise("TypeError")
    ELSE Return(process_historical_metrics(window_rows(frame, t, hours)))

process_cached_data(frame, t) ==
    LET last_24h == windowed_cache(frame, t, Hours24)
        last_30d == windowed_cache(frame, t, Days30 * 24)
    IN  IF last_24h.exc # "none" THEN last_24h
        ELSE IF last_30d.exc # "none" THEN last_30d
        ELSE Return([hour_24 |-> last_24h.val, day_30 |-> last_30d.val])

-----------------------------------------------------------------------------
(* The file system and the writer *)

LatestPath == "data/latest.json"
MetadataPath == "data/metadata.json"
MetricsPath == "data/historical/metrics.json"
SummaryPath == "data/historical/summary.json"
Hour24Path == "data/cache/hour-24.json"
Day30Path == "data/cache/day-30.json"

ArtifactPaths ==
    {LatestPath, MetadataPath, MetricsPath, SummaryPath, Hour24Path, Day30Path}

AllDirs == {"data", "data/historical", "data/historical/archived", "data/cache"}

Parent(path) ==
    IF path \in {LatestPath, MetadataPath} THEN "data"
    ELSE IF path \in {MetricsPath, SummaryPath} THEN "data/historical"
    ELSE "data/cache"

Ancestors(dir) ==
    IF dir = "data" THEN {"data"}
    ELSE IF dir = "data/historical" THEN {"data", "data/historical"}
    ELSE IF dir = "data/cache" THEN {"data", "data/cache"}
    ELSE {"data", "data/historical", "data/historical/archived"}

\* The content of an artifact file: none, what an earlier run left, what an
\* interrupted write left, or the JSON text of a document
Absent == [kind |-> "absent"]
Stale == [kind |-> "stale"]
Truncated == [kind |-> "truncated"]
Written(doc) == [kind |-> "json", json |-> doc]

\* os.makedirs(dir, exist_ok=True)
makedirs(ds, dir) == ds \cup Ancestors(dir)

\* open(filename, 'w') followed by json.dump(data, f): open fails when the parent
\* directory is missing; fault "open" is an open the system refuses, fault "dump"
\* an error while the opened (and so truncated) file is being written
write_json(fs, ds, filename, doc, fault) ==
    IF Parent(filename) \notin ds THEN [exc |-> "FileNotFoundError", files |-> fs]
    ELSE IF fault = "open" THEN [exc |-> "OSError", files |-> fs]
    ELSE IF fault = "dump"
         THEN [exc |-> "OSError", files |-> [fs EXCEPT ![filename] = Truncated]]
         ELSE [exc |-> "none", files |-> [fs EXCEPT ![filename] = Written(doc)]]

save_json(fs, ds, filename, data, fault) == write_json(fs, ds, filename, data, fault)

\* json.dump(latest_data, f, indent=2, default=str): a Timestamp is written as its str()
dump_default_str(record) ==
    [record EXCEPT !.record_date = str_timestamp("naive", record.record_date)]

WriteFaults == {"none", "open", "dump"}

-----------------------------------------------------------------------------
(* The database *)

IsDescending(rows) ==
    \A i \in 1..Len(rows) : \A j \in i..Len(rows) :
        rows[i].record_date >= rows[j].record_date

Permutations_of(rows) ==
    {[i \in 1..Len(rows) |-> rows[f[i]]] :
        f \in {g \in [1..Len(rows) -> 1..Len(rows)] :
                 \A i, j \in 1..Len(rows) : g[i] = g[j] => i = j}}

IsAscending(rows) ==
    \A i \in 1..Len(rows) : \A j \in i..Len(rows) :
        rows[i].record_date <= rows[j].record_date

\* Faulty variant: ORDER BY record_date ASC
order_by_asc(tbl) == {rows \in Permutations_of(tbl) : IsAscending(rows)}

\* SELECT * FROM material_data ORDER BY record_date DESC: the order among rows of
\* equal record_date is the server's choice
order_by_desc(tbl) == {rows \in Permutations_of(tbl) : IsDescending(rows)}

\* ... LIMIT 1
limit_1(rows) == IF rows = <<>> THEN <<>> ELSE <<rows[1]>>

-----------------------------------------------------------------------------
(* Initial states *)

\* The artifact directory before the run: nothing, or the output of earlier runs
stale_files(ds) == [p \in ArtifactPaths |-> IF Parent(p) \in ds THEN Stale ELSE Absent]

InitDirs == {{}, {"data"}, AllDirs}

locals == << latest_data, metrics_data, summary_data, hour_24_data, day_30_data >>
fnvars == << call, ret, norm_calls >>

Init ==
    /\ table \in AllTables
    /\ job \in {"update", "collect"}
    /\ pc = "connect"
    /\ conn = "none"
    /\ df = None
    /\ now = 0
    /\ dirs \in InitDirs
    /\ files = stale_files(dirs)
    /\ files0 = files
    /\ console = <<>>
    /\ status = "running"
    /\ failed = "none"
    /\ exc = "none"
    /\ trace = <<>>
    /\ latest_data = None /\ metrics_data = None /\ summary_data = None
    /\ hour_24_data = None /\ day_30_data = None
    /\ call = "none" /\ ret = None /\ norm_calls = 0

-----------------------------------------------------------------------------
(* update_data.py: main *)

\* A step of main completed: go on with the next one
goto(step, next) ==
    /\ trace' = Append(trace, step)
    /\ pc' = next
    /\ UNCHANGED << console, status, failed, exc >>

\* Faulty variant: the error is printed and main returns normally
except_handler_swallow(step, e) ==
    /\ trace' = Append(trace, step)
    /\ console' = Append(console, "error")
    /\ status' = "ok"
    /\ failed' = step
    /\ exc' = e
    /\ pc' = "done"

\* except Exception as e: print(f"错误: ..."); raise e
except_handler(step, e) ==
    /\ trace' = Append(trace, step)
    /\ console' = Append(console, "error")
    /\ status' = "raised"
    /\ failed' = step
    /\ exc' = e
    /\ pc' = "done"

\* The exception of a step: the one its function raises, else one from outside
raised(r) == IF r.exc # "none" THEN r.exc ELSE "Exception"

Running(j, at) == job = j /\ status = "running" /\ pc = at

connect_to_database ==
    /\ Running("update", "connect")
    /\ \E ok \in BOOLEAN :
        IF ok THEN conn' = "open" /\ goto("connect", "query")
        ELSE conn' = conn /\ except_handler("connect", "Exception")
    /\ UNCHANGED << table, job, df, now, dirs, files, files0, locals, fnvars >>

\* fetch_data, pd.read_sql: on an error the finally clause closes the connection
fetch_data_query ==
    /\ Running("update", "query")
    /\ \E ok \in BOOLEAN : \E rows \in order_by_desc(table) :
        IF ok THEN /\ df' = [tz |-> "naive", rows |-> rows]
                   /\ conn' = conn
                   /\ goto("query", "normalize")
        ELSE /\ df' = df
             /\ conn' = "closed"
             /\ except_handler("query", "DatabaseError")
    /\ UNCHANGED << table, job, now, dirs, files, files0, locals, fnvars >>

\* fetch_data, convert_to_china_timezone and the return through finally
fetch_data_normalize ==
    /\ Running("update", "normalize")
    /\ LET r == convert_to_china_timezone(df)
       IN  \E fault \in BOOLEAN :
            IF fault \/ r.exc # "none"
            THEN df' = df /\ except_handler("normalize", raised(r))
            ELSE df' = r.val /\ goto("normalize", "makedirs")
    /\ conn' = "closed"
    /\ UNCHANGED << table, job, now, dirs, files, files0, locals, fnvars >>

main_makedirs ==
    /\ Running("update", "makedirs")
    /\ \E outcome \in {"ok", "first", "second"} :
        CASE outcome = "ok" ->
                /\ dirs' = makedirs(makedirs(dirs, "data/historical/archived"), "data/cache")
                /\ goto("makedirs", "latest")
          [] outcome = "first" ->
                /\ dirs' = dirs
                /\ except_handler("makedirs", "OSError")
          [] outcome = "second" ->
                /\ dirs' = makedirs(dirs, "data/historical/archived")
                /\ except_handler("makedirs", "OSError")
    /\ UNCHANGED << table, job, conn, df, now, files, files0, locals, fnvars >>

main_latest ==
    /\ Running("update", "latest")
    /\ LET r == process_latest_data(df)
       IN  \E fault \in BOOLEAN :
            IF fault \/ r.exc # "none"
            THEN latest_data' = latest_data /\ except_handler("latest", raised(r))
            ELSE latest_data' = r.val /\ goto("latest", "save_latest")
    /\ UNCHANGED << table, job, conn, df, now, dirs, files, files0, metrics_data,
                    summary_data, hour_24_data, day_30_data, fnvars >>

\* save_json(data, path) as a step of main
main_save(step, next, data, path) ==
    /\ Running("update", step)
    /\ \E fault \in WriteFaults :
        LET r == save_json(files, dirs, path, data, fault)
        IN  /\ files' = r.files
            /\ IF r.exc = "none" THEN goto(step, next) ELSE except_handler(step, r.exc)
    /\ UNCHANGED << table, job, conn, df, now, dirs, files0, locals, fnvars >>

main_save_latest == main_save("save_latest", "metrics", latest_data, LatestPath)

main_metrics ==
    /\ Running("update", "metrics")
    /\ \E fault \in BOOLEAN :
        IF fault
        THEN metrics_data' = metrics_data /\ except_handler("metrics", "Exception")
        ELSE metrics_data' = process_historical_metrics(df) /\ goto("metrics", "save_metrics")
    /\ UNCHANGED << table, job, conn, df, now, dirs, files, files0, latest_data,
                    summary_data, hour_24_data, day_30_data, fnvars >>

main_save_metrics == main_save("save_metrics", "summary", metrics_data, MetricsPath)

main_summary ==
    /\ Running("update", "summary")
    /\ LET r == process_summary(df)
       IN  \E fault \in BOOLEAN :
            IF fault \/ r.exc # "none"
            THEN summary_data' = summary_data /\ except_handler("summary", raised(r))
            ELSE summary_data' = r.val /\ goto("summary", "save_summary")
    /\ UNCHANGED << table, job, conn, df, now, dirs, files, files0, latest_data,
                    metrics_data, hour_24_data, day_30_data, fnvars >>

main_save_summary == main_save("save_summary", "cached", summary_data, SummaryPath)

\* process_cached_data reads the clock
main_cached ==
    /\ Running("update", "cached")
    /\ \E t \in NowRange : \E fault \in BOOLEAN :
        LET r == process_cached_data(df, t)
        IN  /\ now' = t
            /\ IF fault \/ r.exc # "none"
               THEN /\ UNCHANGED << hour_24_data, day_30_data >>
                    /\ except_handler("cached", raised(r))
               ELSE /\ hour_24_data' = r.val.hour_24
                    /\ day_30_data' = r.val.day_30
                    /\ goto("cached", "save_hour24")
    /\ UNCHANGED << table, job, conn, df, dirs, files, files0, latest_data,
                    metrics_data, summary_data, fnvars >>

main_save_hour24 == main_save("save_hour24", "save_day30", hour_24_data, Hour24Path)

main_save_day30 == main_save("save_day30", "success", day_30_data, Day30Path)

\* print("数据更新成功！") and the return of main
main_success ==
    /\ Running("update", "success")
    /\ console' = Append(console, "success")
    /\ status' = "ok"
    /\ pc' = "done"
    /\ UNCHANGED << table, job, conn, df, now, dirs, files, files0, failed, exc,
                    trace, locals, fnvars >>

-----------------------------------------------------------------------------
(* collect_data.py: main.  No exception is caught: an error ends the run where
   it is raised, and conn.close() is the last statement of main *)

uncaught(step, e) ==
    /\ trace' = Append(trace, step)
    /\ status' = "raised"
    /\ failed' = step
    /\ exc' = e
    /\ pc' = "done"
    /\ UNCHANGED console

get_database_connection ==
    /\ Running("collect", "connect")
    /\ \E ok \in BOOLEAN :
        IF ok THEN conn' = "open" /\ goto("connect", "query")
        ELSE conn' = conn /\ uncaught("connect", "DatabaseError")
    /\ UNCHANGED << table, job, df, now, dirs, files, files0, locals, fnvars >>

collect_query ==
    /\ Running("collect", "query")
    /\ \E ok \in BOOLEAN : \E rows \in order_by_desc(table) :
        IF ok THEN /\ df' = [tz |-> "naive", rows |-> limit_1(rows)]
                   /\ goto("query", "latest")
        ELSE /\ df' = df
             /\ uncaught("query", "DatabaseError")
    /\ UNCHANGED << table, job, conn, now, dirs, files, files0, locals, fnvars >>

\* latest_data = df.to_dict('records')[0]
collect_latest ==
    /\ Running("collect", "latest")
    /\ IF df.rows = <<>>
       THEN latest_data' = latest_data /\ uncaught("latest", "IndexError")
       ELSE latest_data' = df.rows[1] /\ goto("latest", "save_latest")
    /\ UNCHANGED << table, job, conn, df, now, dirs, files, files0, metrics_data,
                    summary_data, hour_24_data, day_30_data, fnvars >>

collect_save_latest ==
    /\ Running("collect", "save_latest")
    /\ \E fault \in WriteFaults :
        LET r == write_json(files, dirs, LatestPath, dump_default_str(latest_data), fault)
        IN  /\ files' = r.files
            /\ IF r.exc = "none" THEN goto("save_latest", "save_metadata")
               ELSE uncaught("save_latest", r.exc)
    /\ UNCHANGED << table, job, conn, df, now, dirs, files0, locals, fnvars >>

\* metadata = {"last_updated": datetime.now().isoformat(), "record_count": 1}
collect_save_metadata ==
    /\ Running("collect", "save_metadata")
    /\ \E t \in NowRange : \E fault \in WriteFaults :
        LET metadata == [last_updated |-> isoformat(t), record_count |-> 1]
            r == write_json(files, dirs, MetadataPath, metadata, fault)
        IN  /\ now' = t
            /\ files' = r.files
            /\ IF r.exc = "none" THEN goto("save_metadata", "close")
               ELSE uncaught("save_metadata", r.exc)
    /\ UNCHANGED << table, job, conn, df, dirs, files0, locals, fnvars >>

collect_close ==
    /\ Running("collect", "close")
    /\ conn' = "closed"
    /\ status' = "ok"
    /\ pc' = "done"
    /\ trace' = Append(trace, "close")
    /\ UNCHANGED << table, job, df, now, dirs, files, files0, console, failed,
                    exc, locals, fnvars >>

-----------------------------------------------------------------------------
(* The two jobs *)

Next ==
    \/ connect_to_database
    \/ fetch_data_query
    \/ fetch_data_normalize
    \/ main_makedirs
    \/ main_latest
    \/ main_save_latest
    \/ main_metrics
    \/ main_save_metrics
    \/ main_summary
    \/ main_save_summary
    \/ main_cached
    \/ main_save_hour24
    \/ main_save_day30
    \/ main_success
    \/ get_database_connection
    \/ collect_query
    \/ collect_latest
    \/ collect_save_latest
    \/ collect_save_metadata
    \/ collect_close

Spec == Init /\ [][Next]_vars

-----------------------------------------------------------------------------
(* The normalizer and the transformers on their own, applied to a DataFrame
   of any row order whose record_date column is naive or UTC-aware.  Only the
   normalizer changes the DataFrame, so a run is some calls of the normalizer
   followed by one call of a transformer *)

InitFn ==
    /\ table \in AllTables
    /\ job = "fn"
    /\ pc = "fn"
    /\ conn = "none"
    /\ df \in {[tz |-> z, rows |-> table] : z \in {"naive", "UTC"}}
    /\ now = 0
    /\ dirs = {}
    /\ files = stale_files(dirs)
    /\ files0 = files
    /\ console = <<>>
    /\ status = "running"
    /\ failed = "none"
    /\ exc = "none"
    /\ trace = <<>>
    /\ latest_data = None /\ metrics_data = None /\ summary_data = None
    /\ hour_24_data = None /\ day_30_data = None
    /\ call = "none" /\ ret = None /\ norm_calls = 0

idle == << table, job, pc, conn, dirs, files, files0, console, status, failed,
           exc, trace, locals >>

Callable == job = "fn" /\ call \in {"none", "convert_to_china_timezone"}

\* df = convert_to_china_timezone(df): the column is assigned only if no error is raised
fn_convert ==
    /\ Callable
    /\ norm_calls < MaxNormCalls
    /\ LET r == convert_to_china_timezone(df)
       IN  /\ df' = IF r.exc = "none" THEN r.val ELSE df
           /\ ret' = r
    /\ call' = "convert_to_china_timezone"
    /\ norm_calls' = norm_calls + 1
    /\ UNCHANGED << idle, now >>

fn_latest ==
    /\ Callable
    /\ call' = "process_latest_data"
    /\ ret' = process_latest_data(df)
    /\ UNCHANGED << idle, df, now, norm_calls >>

fn_metrics ==
    /\ Callable
    /\ call' = "process_historical_metrics"
    /\ ret' = Return(process_historical_metrics(df))
    /\ UNCHANGED << idle, df, now, norm_calls >>

fn_summary ==
    /\ Callable
    /\ call' = "process_summary"
    /\ ret' = process_summary(df)
    /\ UNCHANGED << idle, df, now, norm_calls >>

fn_cached ==
    /\ Callable
    /\ \E t \in NowRange :
        /\ now' = t
        /\ ret' = process_cached_data(df, t)
    /\ call' = "process_cached_data"
    /\ UNCHANGED << idle, df, norm_calls >>

\* The windowed-cache builder with a window of any duration
fn_window ==
    /\ Callable
    /\ \E t \in NowRange : \E w \in WindowRange :
        LET r == windowed_cache(df, t, w)
        IN  /\ now' = t
            /\ ret' = IF r.exc = "none" THEN Return([hours |-> w, data |-> r.val]) ELSE r
    /\ call' = "windowed_cache"
    /\ UNCHANGED << idle, df, norm_calls >>

NextFn ==
    \/ fn_convert
    \/ fn_latest
    \/ fn_metrics
    \/ fn_summary
    \/ fn_cached
    \/ fn_window

SpecFn == InitFn /\ [][NextFn]_vars

-----------------------------------------------------------------------------
(* Properties *)

Finished == status # "running"

Last(s) == s[Len(s)]

LatestInstant == SetMax(Range(Column(table, "record_date")))

RECURSIVE IsSubseq(_, _)
IsSubseq(a, b) ==
    IF a = <<>> THEN TRUE
    ELSE IF b = <<>> THEN FALSE
    ELSE IF Head(a) = Head(b) THEN IsSubseq(Tail(a), Tail(b))
    ELSE IsSubseq(a, Tail(b))

IsPrefix(a, b) == Len(a) <= Len(b) /\ a = SubSeq(b, 1, Len(a))

\* The rows of a reshaper output: the i-th elements of all its sequences
OutRows(out) ==
    [i \in 1..Len(out["timestamps"]) |-> [k \in DOMAIN out |-> out[k][i]]]

MetricsKeys == MetricColumns \cup {"timestamps"}

\* C1: in both jobs, a run that opened a database connection has closed it when
\* the run is over, whether it succeeded or failed
C1_ConnectionClosed == (Finished /\ conn # "none") => conn = "closed"

\* C2: for a non-empty Table the reshaper's output has one sequence per metric
\* column and 'timestamps', each as long as the Table, and the i-th element of
\* each sequence is taken from the i-th row
C2_ReshaperParallel ==
    (call = "process_historical_metrics" /\ df.rows # <<>>) =>
        /\ DOMAIN ret.val = MetricsKeys
        /\ \A k \in MetricsKeys : Len(ret.val[k]) = Len(df.rows)
        /\ \A i \in 1..Len(df.rows) :
            /\ ret.val["timestamps"][i] = FormatWall(Wall(df.tz, df.rows[i].record_date), " ")
            /\ \A c \in MetricColumns : ret.val[c][i] = df.rows[i][c]

C2_Witness ==
    /\ call = "process_historical_metrics"
    /\ Len(df.rows) = 2
    /\ df.tz = "Asia/Shanghai"
    /\ df.rows[1].record_date < df.rows[2].record_date
    /\ df.rows[1].value > df.rows[2].value

CoversSpan(frame, t, hours) ==
    \A i \in 1..Len(frame.rows) : frame.rows[i].record_date >= t - hours

AllEmpty(out) == \A k \in DOMAIN out : out[k] = <<>>

Windowed == call = "windowed_cache" /\ ret.exc = "none"

Normalized == call = "convert_to_china_timezone"

Shifted(hours) ==
    /\ Len(df.rows) = Len(table)
    /\ \A i \in 1..Len(table) : Wall(df.tz, df.rows[i].record_date) = table[i].record_date + hours

C6_LatestRecord ==
    (status = "ok" /\ table # <<>>) =>
        /\ files[LatestPath].kind = "json"
        /\ \E i \in 1..Len(table) :
            /\ table[i].record_date = LatestInstant
            /\ \A c \in Columns \ {"record_date"} : files[LatestPath].json[c] = table[i][c]
            /\ job = "update" =>
                /\ files[LatestPath].json.record_date = FormatWall(table[i].record_date + 8, " ")
                /\ table[i].record_date = 24 =>
                        files[LatestPath].json.record_date = "2024-01-02 08:00:00"

C6_Witness ==
    /\ status = "ok"
    /\ job = "update"
    /\ Len(table) = 2
    /\ table[1].record_date = 12 /\ table[2].record_date = 24
    /\ table[1].value = 20 /\ table[2].value = 30
    /\ files[LatestPath].json.value = 30
    /\ files[LatestPath].json.record_date = "2024-01-02 08:00:00"

SaveSteps == {"save_latest", "save_metadata", "save_metrics", "save_summary",
              "save_hour24", "save_day30"}

\* C7: every artifact write creates the missing parent directories of its path, so
\* in neither job a write fails for a missing directory
C7_WritesCreateParents ==
    (Finished /\ failed \in SaveSteps) => exc # "FileNotFoundError"

\* The steps of the full-history job in the order of main, and the artifacts in
\* the order they are written
UpdateSteps ==
    << "connect", "query", "normalize", "makedirs", "latest", "save_latest",
       "metrics", "save_metrics", "summary", "save_summary", "cached",
       "save_hour24", "save_day30" >>

UpdateArtifacts ==
    << [step |-> "save_latest", path |-> LatestPath, data |-> latest_data],
       [step |-> "save_metrics", path |-> MetricsPath, data |-> metrics_data],
       [step |-> "save_summary", path |-> SummaryPath, data |-> summary_data],
       [step |-> "save_hour24", path |-> Hour24Path, data |-> hour_24_data],
       [step |-> "save_day30", path |-> Day30Path, data |-> day_30_data] >>

Completed(step) == \E i \in 1..Len(trace) : trace[i] = step /\ failed # step

\* C8: in the full-history job every error is fatal.  A step that raised ends the
\* run as a failure with the error message printed and the success message not;
\* the failing step is the last one executed; the artifacts written before it
\* hold their new documents and the artifacts ordered after it their previous
\* content
C8_ErrorsAreFatal ==
    job = "update" =>
        /\ failed # "none" => status = "raised"
        /\ status = "ok" => console = <<"success">>
        /\ status = "running" => console = <<>>
        /\ status = "raised" =>
            /\ console = <<"error">>
            /\ exc # "none"
            /\ pc = "done"
            /\ trace = SubSeq(UpdateSteps, 1, Len(trace))
            /\ Last(trace) = failed
            /\ \A k \in 1..Len(UpdateArtifacts) :
                LET a == UpdateArtifacts[k]
                IN  /\ Completed(a.step) => files[a.path] = Written(a.data)
                    /\ (~Completed(a.step) /\ failed # a.step) => files[a.path] = files0[a.path]
            /\ files[MetadataPath] = files0[MetadataPath]

\* The write of summary.json fails half way: latest.json and metrics.json are new,
\* summary.json is cut short, the two caches are what they were
C8_Witness ==
    /\ job = "update"
    /\ status = "raised"
    /\ failed = "save_summary"
    /\ files0[Hour24Path] = Stale
    /\ files[LatestPath] = Written(latest_data)
    /\ files[MetricsPath] = Written(metrics_data)
    /\ files[SummaryPath] = Truncated
    /\ files[Hour24Path] = Stale
    /\ Len(table) = 2

EmptyResult == df # None /\ df.rows = <<>>

\* C9: when the query returns no row, the run passes no further than the
\* latest-record extraction, which raises IndexError; the run ends in failure and
\* every artifact file has the content it had before the run
C9_EmptyTableFails ==
    EmptyResult =>
        /\ files = files0
        /\ status # "ok"
        /\ \A i \in 1..Len(trace) : trace[i] = "latest" =>
                (i = Len(trace) /\ status = "raised" /\ failed = "latest" /\ exc = "IndexError")
        /\ \A i \in 1..Len(trace) : trace[i] \notin SaveSteps

C9_Witness ==
    /\ EmptyResult
    /\ table = <<>>
    /\ job = "update"
    /\ status = "raised"
    /\ failed = "latest"
    /\ files0[LatestPath] = Stale
    /\ files[LatestPath] = Stale

Cached == call = "process_cached_data" /\ ret.exc = "none"

\* C10: the two windows of one call are nested: the rows of the 24-hour output
\* are rows of the 30-day output, which are rows of the unfiltered output, in
\* the same relative order; on a Table sorted descending by record_date the
\* timestamps of each are a prefix of the timestamps of the next; all three
\* outputs have the same keys, the metric columns and 'timestamps'
C10_WindowsNested ==
    Cached =>
        LET h == ret.val.hour_24
            d == ret.val.day_30
            m == process_historical_metrics(df)
        IN  /\ DOMAIN h = MetricsKeys /\ DOMAIN d = MetricsKeys /\ DOMAIN m = MetricsKeys
            /\ \A k \in MetricsKeys : Len(h[k]) = Len(h["timestamps"])
            /\ \A k \in MetricsKeys : Len(d[k]) = Len(d["timestamps"])
            /\ IsSubseq(OutRows(h), OutRows(d))
            /\ IsSubseq(OutRows(d), OutRows(m))
            /\ IsDescending(df.rows) =>
                /\ IsPrefix(h["timestamps"], d["timestamps"])
                /\ IsPrefix(d["timestamps"], m["timestamps"])

\* A sorted Table whose newer row alone is in the 24-hour window, both rows in the
\* 30-day window
C10_Witness ==
    /\ Cached
    /\ Len(df.rows) = 2
    /\ df.rows[1].record_date > df.rows[2].record_date
    /\ Len(ret.val.hour_24["timestamps"]) = 1
    /\ Len(ret.val.day_30["timestamps"]) = 2

====
